---- MODULE Spec2Model ----
(***************************************************************************)
(* A model of the Sanitizer class of src/src/index.ts: the reversible      *)
(* codec (encodeValue / decodeValue), the PII classifier                   *)
(* (detectPatternToSanitize, luhnAlgorithm), the tree walker (walk,        *)
(* sanitizeObject) and the decode walker (decodeBody).                     *)
(*                                                                         *)
(* Representation.  A JavaScript string is the sequence of its UTF-16 code *)
(* units (integers), so that "a:b" is <<97, 58, 98>>.  A Buffer is a       *)
(* sequence of bytes (0..255).  A JSON-like value is a tagged record:      *)
(*   [t |-> "str", s |-> <<code units>>]     [t |-> "num", n |-> Int]      *)
(*   [t |-> "bool", b |-> BOOLEAN]           [t |-> "null"]                *)
(*   [t |-> "undef"]                         (JavaScript's undefined)      *)
(*   [t |-> "arr", items |-> <<values>>]                                   *)
(*   [t |-> "obj", entries |-> <<[k |-> key, v |-> value], ...>>]          *)
(* and a call that throws yields [t |-> "throw", err |-> <<name>>].        *)
(***************************************************************************)
EXTENDS Integers, Sequences, FiniteSets, TLC

VARIABLES pc, cfg, route, input, out, dec

vars == <<pc, cfg, route, input, out, dec>>

(***************************************************************************)
(* Characters                                                              *)
(***************************************************************************)
\* ':' : the separator of a token (iv.toString("hex") + ":" + ...), also the
\* character decodeBody and decodeValue look for.
Colon == 58

IsDigit(c) == c >= 48 /\ c <= 57
IsUpper(c) == c >= 65 /\ c <= 90
IsLower(c) == c >= 97 /\ c <= 122
IsAlnum(c) == IsDigit(c) \/ IsUpper(c) \/ IsLower(c)

\* String.prototype.includes(sub) / RegExp of a literal: sub occurs in s.
Contains(s, sub) ==
    \E i \in 1..(Len(s) - Len(sub) + 1) : SubSeq(s, i, i + Len(sub) - 1) = sub

\* Array.prototype.includes on a list.
Includes(list, x) == \E i \in 1..Len(list) : list[i] = x

(***************************************************************************)
(* Buffers: hex and UTF-8                                                  *)
(***************************************************************************)
\* One hex digit of Buffer.toString("hex") (lower case).
HexDigit(n) == IF n < 10 THEN 48 + n ELSE 87 + n

\* 0-9, a-f, A-F.
IsHexDigit(c) == IsDigit(c) \/ (c >= 97 /\ c <= 102) \/ (c >= 65 /\ c <= 70)

\* The value Buffer.from(s, "hex") gives a code unit as a hex digit, -1 if it
\* gives none: only the low byte of the code unit is looked at.
HexVal(c) ==
    LET b == c % 256
    IN  IF IsDigit(b) THEN b - 48
        ELSE IF b >= 97 /\ b <= 102 THEN b - 87
        ELSE IF b >= 65 /\ b <= 70 THEN b - 55
        ELSE -1

\* A hex encoding that writes a byte below 16 as one digit, without the zero.
RECURSIVE HexEncodeNoPad(_)
HexEncodeNoPad(bytes) ==
    IF bytes = <<>> THEN <<>>
    ELSE (IF Head(bytes) < 16 THEN <<HexDigit(Head(bytes))>>
          ELSE <<HexDigit(Head(bytes) \div 16), HexDigit(Head(bytes) % 16)>>)
             \o HexEncodeNoPad(Tail(bytes))

\* Buffer.toString("hex")
HexEncode(bytes) ==
    [i \in 1..(2 * Len(bytes)) |->
        IF i % 2 = 1 THEN HexDigit(bytes[(i + 1) \div 2] \div 16)
        ELSE HexDigit(bytes[i \div 2] % 16)]

\* A hex decoding that skips the pairs that are not two hex digits instead of
\* stopping at the first of them.
RECURSIVE HexDecodeSkipping(_)
HexDecodeSkipping(s) ==
    IF Len(s) < 2 THEN <<>>
    ELSE IF HexVal(s[1]) < 0 \/ HexVal(s[2]) < 0 THEN HexDecodeSkipping(SubSeq(s, 3, Len(s)))
    ELSE <<16 * HexVal(s[1]) + HexVal(s[2])>> \o HexDecodeSkipping(SubSeq(s, 3, Len(s)))

\* Buffer.from(s, "hex"): pairs of hex digits are decoded up to the first pair
\* that is not two hex digits; the rest, and an odd last digit, are dropped.
\* It never throws.
HexDecode(s) ==
    LET pairs == Len(s) \div 2
        bad == { i \in 1..pairs : HexVal(s[2 * i - 1]) < 0 \/ HexVal(s[2 * i]) < 0 }
        n == IF bad = {} THEN pairs
             ELSE (CHOOSE i \in bad : \A j \in bad : i <= j) - 1
    IN  [i \in 1..n |-> 16 * HexVal(s[2 * i - 1]) + HexVal(s[2 * i])]

IsHighSurrogate(c) == c >= 55296 /\ c <= 56319
IsLowSurrogate(c) == c >= 56320 /\ c <= 57343
IsSurrogate(c) == IsHighSurrogate(c) \/ IsLowSurrogate(c)

\* A well-formed UTF-16 string: every surrogate is one half of a pair.
RECURSIVE WellFormed(_)
WellFormed(s) ==
    IF s = <<>> THEN TRUE
    ELSE IF IsHighSurrogate(s[1])
         THEN Len(s) >= 2 /\ IsLowSurrogate(s[2]) /\ WellFormed(SubSeq(s, 3, Len(s)))
    ELSE IF IsLowSurrogate(s[1]) THEN FALSE
    ELSE WellFormed(Tail(s))

\* The UTF-8 bytes of one code point.
Utf8OfCodePoint(cp) ==
    IF cp < 128 THEN <<cp>>
    ELSE IF cp < 2048 THEN <<192 + (cp \div 64), 128 + (cp % 64)>>
    ELSE IF cp < 65536
         THEN <<224 + (cp \div 4096), 128 + ((cp \div 64) % 64), 128 + (cp % 64)>>
    ELSE <<240 + (cp \div 262144), 128 + ((cp \div 4096) % 64),
           128 + ((cp \div 64) % 64), 128 + (cp % 64)>>

\* cipher.update(val, "utf8"): the UTF-8 encoding of a string.  A surrogate
\* pair is one code point; an unpaired surrogate is encoded as U+FFFD.
RECURSIVE Utf8Encode(_)
Utf8Encode(s) ==
    IF s = <<>> THEN <<>>
    ELSE IF IsHighSurrogate(s[1]) /\ Len(s) >= 2 /\ IsLowSurrogate(s[2])
         THEN Utf8OfCodePoint(65536 + (s[1] - 55296) * 1024 + (s[2] - 56320))
                  \o Utf8Encode(SubSeq(s, 3, Len(s)))
    ELSE IF IsSurrogate(s[1]) THEN Utf8OfCodePoint(65533) \o Utf8Encode(Tail(s))
    ELSE Utf8OfCodePoint(s[1]) \o Utf8Encode(Tail(s))

IsCont(b) == b >= 128 /\ b <= 191

\* The code units of one code point.
Utf16OfCodePoint(cp) ==
    IF cp < 65536 THEN <<cp>>
    ELSE <<55296 + ((cp - 65536) \div 1024), 56320 + ((cp - 65536) % 1024)>>

\* The number of continuation bytes the lead byte b1 of a UTF-8 sequence asks
\* for, 0 if b1 is no lead byte (C0, C1 and F5..FF included).
Utf8Need(b1) ==
    IF b1 >= 194 /\ b1 <= 223 THEN 1
    ELSE IF b1 >= 224 /\ b1 <= 239 THEN 2
    ELSE IF b1 >= 240 /\ b1 <= 244 THEN 3
    ELSE 0

\* The byte x may be the j-th continuation byte after the lead byte b1: the
\* first one is bounded so that overlong forms, surrogates and code points
\* above U+10FFFF start no sequence.
Utf8Continues(b1, j, x) ==
    IF j > 1 THEN IsCont(x)
    ELSE /\ x >= (IF b1 = 224 THEN 160 ELSE IF b1 = 240 THEN 144 ELSE 128)
         /\ x <= (IF b1 = 237 THEN 159 ELSE IF b1 = 244 THEN 143 ELSE 191)

\* Buffer.toString("utf8"): the string of a byte sequence.  A byte that starts
\* no well-formed sequence is decoded as U+FFFD, and so is, as a whole, the
\* beginning of a sequence that is cut short or broken off.
RECURSIVE Utf8Decode(_)
Utf8Decode(b) ==
    IF b = <<>> THEN <<>>
    ELSE IF b[1] < 128 THEN <<b[1]>> \o Utf8Decode(Tail(b))
    ELSE LET need == Utf8Need(b[1])
             ok(j) == 1 + j <= Len(b) /\ Utf8Continues(b[1], j, b[1 + j])
             got == IF need >= 1 /\ ok(1)
                    THEN IF need >= 2 /\ ok(2)
                         THEN IF need >= 3 /\ ok(3) THEN 3 ELSE 2
                         ELSE 1
                    ELSE 0
             rest == Utf8Decode(SubSeq(b, 2 + got, Len(b)))
         IN  IF need = 0 \/ got < need THEN <<65533>> \o rest
             ELSE IF need = 1 THEN <<(b[1] - 192) * 64 + (b[2] - 128)>> \o rest
             ELSE IF need = 2
                  THEN <<(b[1] - 224) * 4096 + (b[2] - 128) * 64 + (b[3] - 128)>> \o rest
             ELSE Utf16OfCodePoint((b[1] - 240) * 262144 + (b[2] - 128) * 4096
                                      + (b[3] - 128) * 64 + (b[4] - 128)) \o rest

(***************************************************************************)
(* String.prototype.toLowerCase: the default case conversion of Unicode    *)
(* (the tables are those of Unicode 17.0), applied code point by code      *)
(* point.                                                                  *)
(***************************************************************************)
\* The simple lower-case mappings outside ASCII, as runs <<first, last,
\* delta, step>>: every step-th code point from first to last maps to itself
\* plus delta.
LowerRuns ==
    <<
       <<192, 214, 32, 1>>, <<216, 222, 32, 1>>, <<256, 302, 1, 2>>, <<306, 310, 1, 2>>,
       <<313, 327, 1, 2>>, <<330, 374, 1, 2>>, <<376, 376, -121, 1>>, <<377, 381, 1, 2>>,
       <<385, 385, 210, 1>>, <<386, 388, 1, 2>>, <<390, 390, 206, 1>>, <<391, 391, 1, 1>>,
       <<393, 394, 205, 1>>, <<395, 395, 1, 1>>, <<398, 398, 79, 1>>, <<399, 399, 202, 1>>,
       <<400, 400, 203, 1>>, <<401, 401, 1, 1>>, <<403, 403, 205, 1>>, <<404, 404, 207, 1>>,
       <<406, 406, 211, 1>>, <<407, 407, 209, 1>>, <<408, 408, 1, 1>>, <<412, 412, 211, 1>>,
       <<413, 413, 213, 1>>, <<415, 415, 214, 1>>, <<416, 420, 1, 2>>, <<422, 422, 218, 1>>,
       <<423, 423, 1, 1>>, <<425, 425, 218, 1>>, <<428, 428, 1, 1>>, <<430, 430, 218, 1>>,
       <<431, 431, 1, 1>>, <<433, 434, 217, 1>>, <<435, 437, 1, 2>>, <<439, 439, 219, 1>>,
       <<440, 440, 1, 1>>, <<444, 444, 1, 1>>, <<452, 452, 2, 1>>, <<453, 453, 1, 1>>,
       <<455, 455, 2, 1>>, <<456, 456, 1, 1>>, <<458, 458, 2, 1>>, <<459, 475, 1, 2>>,
       <<478, 494, 1, 2>>, <<497, 497, 2, 1>>, <<498, 500, 1, 2>>, <<502, 502, -97, 1>>,
       <<503, 503, -56, 1>>, <<504, 542, 1, 2>>, <<544, 544, -130, 1>>, <<546, 562, 1, 2>>,
       <<570, 570, 10795, 1>>, <<571, 571, 1, 1>>, <<573, 573, -163, 1>>, <<574, 574, 10792, 1>>,
       <<577, 577, 1, 1>>, <<579, 579, -195, 1>>, <<580, 580, 69, 1>>, <<581, 581, 71, 1>>,
       <<582, 590, 1, 2>>, <<880, 882, 1, 2>>, <<886, 886, 1, 1>>, <<895, 895, 116, 1>>,
       <<902, 902, 38, 1>>, <<904, 906, 37, 1>>, <<908, 908, 64, 1>>, <<910, 911, 63, 1>>,
       <<913, 929, 32, 1>>, <<931, 939, 32, 1>>, <<975, 975, 8, 1>>, <<984, 1006, 1, 2>>,
       <<1012, 1012, -60, 1>>, <<1015, 1015, 1, 1>>, <<1017, 1017, -7, 1>>, <<1018, 1018, 1, 1>>,
       <<1021, 1023, -130, 1>>, <<1024, 1039, 80, 1>>, <<1040, 1071, 32, 1>>, <<1120, 1152, 1, 2>>,
       <<1162, 1214, 1, 2>>, <<1216, 1216, 15, 1>>, <<1217, 1229, 1, 2>>, <<1232, 1326, 1, 2>>,
       <<1329, 1366, 48, 1>>, <<4256, 4293, 7264, 1>>, <<4295, 4295, 7264, 1>>, <<4301, 4301, 7264, 1>>,
       <<5024, 5103, 38864, 1>>, <<5104, 5109, 8, 1>>, <<7305, 7305, 1, 1>>, <<7312, 7354, -3008, 1>>,
       <<7357, 7359, -3008, 1>>, <<7680, 7828, 1, 2>>, <<7838, 7838, -7615, 1>>, <<7840, 7934, 1, 2>>,
       <<7944, 7951, -8, 1>>, <<7960, 7965, -8, 1>>, <<7976, 7983, -8, 1>>, <<7992, 7999, -8, 1>>,
       <<8008, 8013, -8, 1>>, <<8025, 8025, -8, 1>>, <<8027, 8027, -8, 1>>, <<8029, 8029, -8, 1>>,
       <<8031, 8031, -8, 1>>, <<8040, 8047, -8, 1>>, <<8072, 8079, -8, 1>>, <<8088, 8095, -8, 1>>,
       <<8104, 8111, -8, 1>>, <<8120, 8121, -8, 1>>, <<8122, 8123, -74, 1>>, <<8124, 8124, -9, 1>>,
       <<8136, 8139, -86, 1>>, <<8140, 8140, -9, 1>>, <<8152, 8153, -8, 1>>, <<8154, 8155, -100, 1>>,
       <<8168, 8169, -8, 1>>, <<8170, 8171, -112, 1>>, <<8172, 8172, -7, 1>>, <<8184, 8185, -128, 1>>,
       <<8186, 8187, -126, 1>>, <<8188, 8188, -9, 1>>, <<8486, 8486, -7517, 1>>, <<8490, 8490, -8383, 1>>,
       <<8491, 8491, -8262, 1>>, <<8498, 8498, 28, 1>>, <<8544, 8559, 16, 1>>, <<8579, 8579, 1, 1>>,
       <<9398, 9423, 26, 1>>, <<11264, 11311, 48, 1>>, <<11360, 11360, 1, 1>>, <<11362, 11362, -10743, 1>>,
       <<11363, 11363, -3814, 1>>, <<11364, 11364, -10727, 1>>, <<11367, 11371, 1, 2>>, <<11373, 11373, -10780, 1>>,
       <<11374, 11374, -10749, 1>>, <<11375, 11375, -10783, 1>>, <<11376, 11376, -10782, 1>>, <<11378, 11378, 1, 1>>,
       <<11381, 11381, 1, 1>>, <<11390, 11391, -10815, 1>>, <<11392, 11490, 1, 2>>, <<11499, 11501, 1, 2>>,
       <<11506, 11506, 1, 1>>, <<42560, 42604, 1, 2>>, <<42624, 42650, 1, 2>>, <<42786, 42798, 1, 2>>,
       <<42802, 42862, 1, 2>>, <<42873, 42875, 1, 2>>, <<42877, 42877, -35332, 1>>, <<42878, 42886, 1, 2>>,
       <<42891, 42891, 1, 1>>, <<42893, 42893, -42280, 1>>, <<42896, 42898, 1, 2>>, <<42902, 42920, 1, 2>>,
       <<42922, 42922, -42308, 1>>, <<42923, 42923, -42319, 1>>, <<42924, 42924, -42315, 1>>, <<42925, 42925, -42305, 1>>,
       <<42926, 42926, -42308, 1>>, <<42928, 42928, -42258, 1>>, <<42929, 42929, -42282, 1>>, <<42930, 42930, -42261, 1>>,
       <<42931, 42931, 928, 1>>, <<42932, 42946, 1, 2>>, <<42948, 42948, -48, 1>>, <<42949, 42949, -42307, 1>>,
       <<42950, 42950, -35384, 1>>, <<42951, 42953, 1, 2>>, <<42955, 42955, -42343, 1>>, <<42956, 42970, 1, 2>>,
       <<42972, 42972, -42561, 1>>, <<42997, 42997, 1, 1>>, <<65313, 65338, 32, 1>>, <<66560, 66599, 40, 1>>,
       <<66736, 66771, 40, 1>>, <<66928, 66938, 39, 1>>, <<66940, 66954, 39, 1>>, <<66956, 66962, 39, 1>>,
       <<66964, 66965, 39, 1>>, <<68736, 68786, 64, 1>>, <<68944, 68965, 32, 1>>, <<71840, 71871, 32, 1>>,
       <<93760, 93791, 32, 1>>, <<93856, 93880, 27, 1>>, <<125184, 125217, 34, 1>>
    >>

\* The code points with the property Cased that are not Case_Ignorable, as
\* ranges <<first, last>>.
CasedRanges ==
    <<
       <<65, 90>>, <<97, 122>>, <<170, 170>>, <<181, 181>>, <<186, 186>>, <<192, 214>>,
       <<216, 246>>, <<248, 442>>, <<444, 447>>, <<452, 659>>, <<662, 687>>, <<880, 883>>,
       <<886, 887>>, <<891, 893>>, <<895, 895>>, <<902, 902>>, <<904, 906>>, <<908, 908>>,
       <<910, 929>>, <<931, 1013>>, <<1015, 1153>>, <<1162, 1327>>, <<1329, 1366>>, <<1376, 1416>>,
       <<4256, 4293>>, <<4295, 4295>>, <<4301, 4301>>, <<4304, 4346>>, <<4349, 4351>>, <<5024, 5109>>,
       <<5112, 5117>>, <<7296, 7306>>, <<7312, 7354>>, <<7357, 7359>>, <<7424, 7467>>, <<7531, 7543>>,
       <<7545, 7578>>, <<7680, 7957>>, <<7960, 7965>>, <<7968, 8005>>, <<8008, 8013>>, <<8016, 8023>>,
       <<8025, 8025>>, <<8027, 8027>>, <<8029, 8029>>, <<8031, 8061>>, <<8064, 8116>>, <<8118, 8124>>,
       <<8126, 8126>>, <<8130, 8132>>, <<8134, 8140>>, <<8144, 8147>>, <<8150, 8155>>, <<8160, 8172>>,
       <<8178, 8180>>, <<8182, 8188>>, <<8450, 8450>>, <<8455, 8455>>, <<8458, 8467>>, <<8469, 8469>>,
       <<8473, 8477>>, <<8484, 8484>>, <<8486, 8486>>, <<8488, 8488>>, <<8490, 8493>>, <<8495, 8500>>,
       <<8505, 8505>>, <<8508, 8511>>, <<8517, 8521>>, <<8526, 8526>>, <<8544, 8575>>, <<8579, 8580>>,
       <<9398, 9449>>, <<11264, 11387>>, <<11390, 11492>>, <<11499, 11502>>, <<11506, 11507>>, <<11520, 11557>>,
       <<11559, 11559>>, <<11565, 11565>>, <<42560, 42605>>, <<42624, 42651>>, <<42786, 42863>>, <<42865, 42887>>,
       <<42891, 42894>>, <<42896, 42972>>, <<42997, 42998>>, <<43002, 43002>>, <<43824, 43866>>, <<43872, 43880>>,
       <<43888, 43967>>, <<64256, 64262>>, <<64275, 64279>>, <<65313, 65338>>, <<65345, 65370>>, <<66560, 66639>>,
       <<66736, 66771>>, <<66776, 66811>>, <<66928, 66938>>, <<66940, 66954>>, <<66956, 66962>>, <<66964, 66965>>,
       <<66967, 66977>>, <<66979, 66993>>, <<66995, 67001>>, <<67003, 67004>>, <<68736, 68786>>, <<68800, 68850>>,
       <<68944, 68965>>, <<68976, 68997>>, <<71840, 71903>>, <<93760, 93823>>, <<93856, 93880>>, <<93883, 93907>>,
       <<119808, 119892>>, <<119894, 119964>>, <<119966, 119967>>, <<119970, 119970>>, <<119973, 119974>>, <<119977, 119980>>,
       <<119982, 119993>>, <<119995, 119995>>, <<119997, 120003>>, <<120005, 120069>>, <<120071, 120074>>, <<120077, 120084>>,
       <<120086, 120092>>, <<120094, 120121>>, <<120123, 120126>>, <<120128, 120132>>, <<120134, 120134>>, <<120138, 120144>>,
       <<120146, 120485>>, <<120488, 120512>>, <<120514, 120538>>, <<120540, 120570>>, <<120572, 120596>>, <<120598, 120628>>,
       <<120630, 120654>>, <<120656, 120686>>, <<120688, 120712>>, <<120714, 120744>>, <<120746, 120770>>, <<120772, 120779>>,
       <<122624, 122633>>, <<122635, 122654>>, <<122661, 122666>>, <<125184, 125251>>, <<127280, 127305>>, <<127312, 127337>>,
       <<127344, 127369>>
    >>

\* The code points with the property Case_Ignorable, as ranges <<first, last>>.
CaseIgnorableRanges ==
    <<
       <<39, 39>>, <<46, 46>>, <<58, 58>>, <<94, 94>>, <<96, 96>>, <<168, 168>>,
       <<173, 173>>, <<175, 175>>, <<180, 180>>, <<183, 184>>, <<688, 879>>, <<884, 885>>,
       <<890, 890>>, <<900, 901>>, <<903, 903>>, <<1155, 1161>>, <<1369, 1369>>, <<1375, 1375>>,
       <<1425, 1469>>, <<1471, 1471>>, <<1473, 1474>>, <<1476, 1477>>, <<1479, 1479>>, <<1524, 1524>>,
       <<1536, 1541>>, <<1552, 1562>>, <<1564, 1564>>, <<1600, 1600>>, <<1611, 1631>>, <<1648, 1648>>,
       <<1750, 1757>>, <<1759, 1768>>, <<1770, 1773>>, <<1807, 1807>>, <<1809, 1809>>, <<1840, 1866>>,
       <<1958, 1968>>, <<2027, 2037>>, <<2042, 2042>>, <<2045, 2045>>, <<2070, 2093>>, <<2137, 2139>>,
       <<2184, 2184>>, <<2192, 2193>>, <<2199, 2207>>, <<2249, 2306>>, <<2362, 2362>>, <<2364, 2364>>,
       <<2369, 2376>>, <<2381, 2381>>, <<2385, 2391>>, <<2402, 2403>>, <<2417, 2417>>, <<2433, 2433>>,
       <<2492, 2492>>, <<2497, 2500>>, <<2509, 2509>>, <<2530, 2531>>, <<2558, 2558>>, <<2561, 2562>>,
       <<2620, 2620>>, <<2625, 2626>>, <<2631, 2632>>, <<2635, 2637>>, <<2641, 2641>>, <<2672, 2673>>,
       <<2677, 2677>>, <<2689, 2690>>, <<2748, 2748>>, <<2753, 2757>>, <<2759, 2760>>, <<2765, 2765>>,
       <<2786, 2787>>, <<2810, 2815>>, <<2817, 2817>>, <<2876, 2876>>, <<2879, 2879>>, <<2881, 2884>>,
       <<2893, 2893>>, <<2901, 2902>>, <<2914, 2915>>, <<2946, 2946>>, <<3008, 3008>>, <<3021, 3021>>,
       <<3072, 3072>>, <<3076, 3076>>, <<3132, 3132>>, <<3134, 3136>>, <<3142, 3144>>, <<3146, 3149>>,
       <<3157, 3158>>, <<3170, 3171>>, <<3201, 3201>>, <<3260, 3260>>, <<3263, 3263>>, <<3270, 3270>>,
       <<3276, 3277>>, <<3298, 3299>>, <<3328, 3329>>, <<3387, 3388>>, <<3393, 3396>>, <<3405, 3405>>,
       <<3426, 3427>>, <<3457, 3457>>, <<3530, 3530>>, <<3538, 3540>>, <<3542, 3542>>, <<3633, 3633>>,
       <<3636, 3642>>, <<3654, 3662>>, <<3761, 3761>>, <<3764, 3772>>, <<3782, 3782>>, <<3784, 3790>>,
       <<3864, 3865>>, <<3893, 3893>>, <<3895, 3895>>, <<3897, 3897>>, <<3953, 3966>>, <<3968, 3972>>,
       <<3974, 3975>>, <<3981, 3991>>, <<3993, 4028>>, <<4038, 4038>>, <<4141, 4144>>, <<4146, 4151>>,
       <<4153, 4154>>, <<4157, 4158>>, <<4184, 4185>>, <<4190, 4192>>, <<4209, 4212>>, <<4226, 4226>>,
       <<4229, 4230>>, <<4237, 4237>>, <<4253, 4253>>, <<4348, 4348>>, <<4957, 4959>>, <<5906, 5908>>,
       <<5938, 5939>>, <<5970, 5971>>, <<6002, 6003>>, <<6068, 6069>>, <<6071, 6077>>, <<6086, 6086>>,
       <<6089, 6099>>, <<6103, 6103>>, <<6109, 6109>>, <<6155, 6159>>, <<6211, 6211>>, <<6277, 6278>>,
       <<6313, 6313>>, <<6432, 6434>>, <<6439, 6440>>, <<6450, 6450>>, <<6457, 6459>>, <<6679, 6680>>,
       <<6683, 6683>>, <<6742, 6742>>, <<6744, 6750>>, <<6752, 6752>>, <<6754, 6754>>, <<6757, 6764>>,
       <<6771, 6780>>, <<6783, 6783>>, <<6823, 6823>>, <<6832, 6877>>, <<6880, 6891>>, <<6912, 6915>>,
       <<6964, 6964>>, <<6966, 6970>>, <<6972, 6972>>, <<6978, 6978>>, <<7019, 7027>>, <<7040, 7041>>,
       <<7074, 7077>>, <<7080, 7081>>, <<7083, 7085>>, <<7142, 7142>>, <<7144, 7145>>, <<7149, 7149>>,
       <<7151, 7153>>, <<7212, 7219>>, <<7222, 7223>>, <<7288, 7293>>, <<7376, 7378>>, <<7380, 7392>>,
       <<7394, 7400>>, <<7405, 7405>>, <<7412, 7412>>, <<7416, 7417>>, <<7468, 7530>>, <<7544, 7544>>,
       <<7579, 7679>>, <<8125, 8125>>, <<8127, 8129>>, <<8141, 8143>>, <<8157, 8159>>, <<8173, 8175>>,
       <<8189, 8190>>, <<8203, 8207>>, <<8216, 8217>>, <<8228, 8228>>, <<8231, 8231>>, <<8234, 8238>>,
       <<8288, 8292>>, <<8294, 8303>>, <<8305, 8305>>, <<8319, 8319>>, <<8336, 8348>>, <<8400, 8432>>,
       <<11388, 11389>>, <<11503, 11505>>, <<11631, 11631>>, <<11647, 11647>>, <<11744, 11775>>, <<11823, 11823>>,
       <<12293, 12293>>, <<12330, 12333>>, <<12337, 12341>>, <<12347, 12347>>, <<12441, 12446>>, <<12540, 12542>>,
       <<40981, 40981>>, <<42232, 42237>>, <<42508, 42508>>, <<42607, 42610>>, <<42612, 42621>>, <<42623, 42623>>,
       <<42652, 42655>>, <<42736, 42737>>, <<42752, 42785>>, <<42864, 42864>>, <<42888, 42890>>, <<42993, 42996>>,
       <<43000, 43001>>, <<43010, 43010>>, <<43014, 43014>>, <<43019, 43019>>, <<43045, 43046>>, <<43052, 43052>>,
       <<43204, 43205>>, <<43232, 43249>>, <<43263, 43263>>, <<43302, 43309>>, <<43335, 43345>>, <<43392, 43394>>,
       <<43443, 43443>>, <<43446, 43449>>, <<43452, 43453>>, <<43471, 43471>>, <<43493, 43494>>, <<43561, 43566>>,
       <<43569, 43570>>, <<43573, 43574>>, <<43587, 43587>>, <<43596, 43596>>, <<43632, 43632>>, <<43644, 43644>>,
       <<43696, 43696>>, <<43698, 43700>>, <<43703, 43704>>, <<43710, 43711>>, <<43713, 43713>>, <<43741, 43741>>,
       <<43756, 43757>>, <<43763, 43764>>, <<43766, 43766>>, <<43867, 43871>>, <<43881, 43883>>, <<44005, 44005>>,
       <<44008, 44008>>, <<44013, 44013>>, <<64286, 64286>>, <<64434, 64450>>, <<65024, 65039>>, <<65043, 65043>>,
       <<65056, 65071>>, <<65106, 65106>>, <<65109, 65109>>, <<65279, 65279>>, <<65287, 65287>>, <<65294, 65294>>,
       <<65306, 65306>>, <<65342, 65342>>, <<65344, 65344>>, <<65392, 65392>>, <<65438, 65439>>, <<65507, 65507>>,
       <<65529, 65531>>, <<66045, 66045>>, <<66272, 66272>>, <<66422, 66426>>, <<67456, 67461>>, <<67463, 67504>>,
       <<67506, 67514>>, <<68097, 68099>>, <<68101, 68102>>, <<68108, 68111>>, <<68152, 68154>>, <<68159, 68159>>,
       <<68325, 68326>>, <<68900, 68903>>, <<68942, 68942>>, <<68969, 68973>>, <<68975, 68975>>, <<69291, 69292>>,
       <<69317, 69317>>, <<69370, 69375>>, <<69446, 69456>>, <<69506, 69509>>, <<69633, 69633>>, <<69688, 69702>>,
       <<69744, 69744>>, <<69747, 69748>>, <<69759, 69761>>, <<69811, 69814>>, <<69817, 69818>>, <<69821, 69821>>,
       <<69826, 69826>>, <<69837, 69837>>, <<69888, 69890>>, <<69927, 69931>>, <<69933, 69940>>, <<70003, 70003>>,
       <<70016, 70017>>, <<70070, 70078>>, <<70089, 70092>>, <<70095, 70095>>, <<70191, 70193>>, <<70196, 70196>>,
       <<70198, 70199>>, <<70206, 70206>>, <<70209, 70209>>, <<70367, 70367>>, <<70371, 70378>>, <<70400, 70401>>,
       <<70459, 70460>>, <<70464, 70464>>, <<70502, 70508>>, <<70512, 70516>>, <<70587, 70592>>, <<70606, 70606>>,
       <<70608, 70608>>, <<70610, 70610>>, <<70625, 70626>>, <<70712, 70719>>, <<70722, 70724>>, <<70726, 70726>>,
       <<70750, 70750>>, <<70835, 70840>>, <<70842, 70842>>, <<70847, 70848>>, <<70850, 70851>>, <<71090, 71093>>,
       <<71100, 71101>>, <<71103, 71104>>, <<71132, 71133>>, <<71219, 71226>>, <<71229, 71229>>, <<71231, 71232>>,
       <<71339, 71339>>, <<71341, 71341>>, <<71344, 71349>>, <<71351, 71351>>, <<71453, 71453>>, <<71455, 71455>>,
       <<71458, 71461>>, <<71463, 71467>>, <<71727, 71735>>, <<71737, 71738>>, <<71995, 71996>>, <<71998, 71998>>,
       <<72003, 72003>>, <<72148, 72151>>, <<72154, 72155>>, <<72160, 72160>>, <<72193, 72202>>, <<72243, 72248>>,
       <<72251, 72254>>, <<72263, 72263>>, <<72273, 72278>>, <<72281, 72283>>, <<72330, 72342>>, <<72344, 72345>>,
       <<72544, 72544>>, <<72546, 72548>>, <<72550, 72550>>, <<72752, 72758>>, <<72760, 72765>>, <<72767, 72767>>,
       <<72850, 72871>>, <<72874, 72880>>, <<72882, 72883>>, <<72885, 72886>>, <<73009, 73014>>, <<73018, 73018>>,
       <<73020, 73021>>, <<73023, 73029>>, <<73031, 73031>>, <<73104, 73105>>, <<73109, 73109>>, <<73111, 73111>>,
       <<73177, 73177>>, <<73459, 73460>>, <<73472, 73473>>, <<73526, 73530>>, <<73536, 73536>>, <<73538, 73538>>,
       <<73562, 73562>>, <<78896, 78912>>, <<78919, 78933>>, <<90398, 90409>>, <<90413, 90415>>, <<92912, 92916>>,
       <<92976, 92982>>, <<92992, 92995>>, <<93504, 93506>>, <<93547, 93548>>, <<94031, 94031>>, <<94095, 94111>>,
       <<94176, 94177>>, <<94179, 94180>>, <<94194, 94195>>, <<110576, 110579>>, <<110581, 110587>>, <<110589, 110590>>,
       <<113821, 113822>>, <<113824, 113827>>, <<118528, 118573>>, <<118576, 118598>>, <<119143, 119145>>, <<119155, 119170>>,
       <<119173, 119179>>, <<119210, 119213>>, <<119362, 119364>>, <<121344, 121398>>, <<121403, 121452>>, <<121461, 121461>>,
       <<121476, 121476>>, <<121499, 121503>>, <<121505, 121519>>, <<122880, 122886>>, <<122888, 122904>>, <<122907, 122913>>,
       <<122915, 122916>>, <<122918, 122922>>, <<122928, 122989>>, <<123023, 123023>>, <<123184, 123197>>, <<123566, 123566>>,
       <<123628, 123631>>, <<124139, 124143>>, <<124398, 124399>>, <<124643, 124643>>, <<124646, 124646>>, <<124654, 124655>>,
       <<124661, 124661>>, <<124671, 124671>>, <<125136, 125142>>, <<125252, 125259>>, <<127995, 127999>>, <<917505, 917505>>,
       <<917536, 917631>>, <<917760, 917999>>
    >>

InRanges(ranges, cp) == \E k \in 1..Len(ranges) : ranges[k][1] <= cp /\ cp <= ranges[k][2]

IsCased(cp) == InRanges(CasedRanges, cp)
IsCaseIgnorable(cp) == InRanges(CaseIgnorableRanges, cp)

\* The lower-case mapping of one code point where it is one code point.
LowerCodePoint(cp) ==
    IF cp < 128 THEN (IF IsUpper(cp) THEN cp + 32 ELSE cp)
    ELSE LET hit == { k \in 1..Len(LowerRuns) :
                        /\ LowerRuns[k][1] <= cp /\ cp <= LowerRuns[k][2]
                        /\ (cp - LowerRuns[k][1]) % LowerRuns[k][4] = 0 }
         IN  IF hit = {} THEN cp ELSE cp + LowerRuns[CHOOSE k \in hit : TRUE][3]

\* The code point that starts at position i of s, and the one that ends there;
\* an unpaired surrogate is a code point of its own.
PairAt(s, i) == i >= 1 /\ i < Len(s) /\ IsHighSurrogate(s[i]) /\ IsLowSurrogate(s[i + 1])
CodePointOfPair(hi, lo) == 65536 + (hi - 55296) * 1024 + (lo - 56320)
CodePointAt(s, i) == IF PairAt(s, i) THEN CodePointOfPair(s[i], s[i + 1]) ELSE s[i]
CodePointBefore(s, i) == IF PairAt(s, i - 1) THEN CodePointOfPair(s[i - 1], s[i]) ELSE s[i]

\* The condition Final_Sigma of SpecialCasing: a cased letter comes before,
\* none comes after, case-ignorable code points skipped on both sides.
RECURSIVE CasedBefore(_, _)
CasedBefore(s, i) ==
    IF i < 1 THEN FALSE
    ELSE LET cp == CodePointBefore(s, i)
         IN  IF IsCaseIgnorable(cp)
             THEN CasedBefore(s, IF PairAt(s, i - 1) THEN i - 2 ELSE i - 1)
             ELSE IsCased(cp)

RECURSIVE CasedAfter(_, _)
CasedAfter(s, i) ==
    IF i > Len(s) THEN FALSE
    ELSE LET cp == CodePointAt(s, i)
         IN  IF IsCaseIgnorable(cp)
             THEN CasedAfter(s, IF PairAt(s, i) THEN i + 2 ELSE i + 1)
             ELSE IsCased(cp)

FinalSigma(s, i) == CasedBefore(s, i - 1) /\ ~CasedAfter(s, i + 1)

\* s.toLowerCase() from position i on.  U+0130 becomes "i" and U+0307, a
\* capital sigma in final position becomes U+03C2.
RECURSIVE LowerFrom(_, _)
LowerFrom(s, i) ==
    IF i > Len(s) THEN <<>>
    ELSE IF PairAt(s, i)
         THEN Utf16OfCodePoint(LowerCodePoint(CodePointAt(s, i))) \o LowerFrom(s, i + 2)
    ELSE IF s[i] = 304 THEN <<105, 775>> \o LowerFrom(s, i + 1)
    ELSE IF s[i] = 931 /\ FinalSigma(s, i) THEN <<962>> \o LowerFrom(s, i + 1)
    ELSE <<LowerCodePoint(s[i])>> \o LowerFrom(s, i + 1)

toLowerCase(s) == LowerFrom(s, 1)

\* The string of one code unit, lower-cased.
LowerChar(c) == toLowerCase(<<c>>)

(***************************************************************************)
(* The reversible codec                                                    *)
(***************************************************************************)
\* randomBytes(16) and the IV length createDecipheriv accepts for aes-256-ctr.
IvLen == 16

\* getKey: createHash("sha256").update(signingSecret).digest().  The digest is
\* abstracted to a number that the secret alone determines.
RECURSIVE getKey(_)
getKey(secret) ==
    IF secret = <<>> THEN 7
    ELSE (31 * getKey(SubSeq(secret, 1, Len(secret) - 1)) + secret[Len(secret)]) % 65521

RECURSIVE SumBytes(_)
SumBytes(b) == IF b = <<>> THEN 0 ELSE Head(b) + SumBytes(Tail(b))

\* The i-th byte of the AES-256-CTR key stream for a key and an IV.  The block
\* cipher is abstracted to a byte that key, IV (through KeyStreamBlock) and
\* position determine; CTR mode itself (XOR with the key stream, the same for
\* both directions) is kept.
KeyStream(block, i) == (block + i * 29) % 256

\* What key and IV contribute to the key stream.
KeyStreamBlock(key, iv) == (key * 13 + SumBytes(iv) * 7 + iv[1] * 3 + 5) % 256

RECURSIVE BitXor(_, _)
BitXor(a, b) ==
    IF a = 0 THEN b
    ELSE IF b = 0 THEN a
    ELSE ((a + b) % 2) + 2 * BitXor(a \div 2, b \div 2)

\* createCipheriv("aes-256-ctr", key, iv).update(..) + final(), and the same
\* for createDecipheriv: every byte is XORed with the key stream.
CtrXor(key, iv, bytes) ==
    LET block == KeyStreamBlock(key, iv)
    IN  [i \in 1..Len(bytes) |-> BitXor(bytes[i], KeyStream(block, i))]

\* encodeValue(val) with iv the 16 bytes randomBytes returned.
encodeValue(secret, iv, val) ==
    HexEncode(iv) \o <<Colon>> \o HexEncode(CtrXor(getKey(secret), iv, Utf8Encode(val)))

\* data.split(":"): the list of the segments between the colons.
RECURSIVE Split(_)
Split(s) ==
    IF ~Includes(s, Colon) THEN <<s>>
    ELSE LET i == CHOOSE j \in 1..Len(s) : s[j] = Colon /\ \A k \in 1..(j - 1) : s[k] # Colon
         IN  <<SubSeq(s, 1, i - 1)>> \o Split(SubSeq(s, i + 1, Len(s)))

Throw(e) == [t |-> "throw", err |-> e]
Str(s) == [t |-> "str", s |-> s]
IsThrow(v) == v.t = "throw"

\* decodeValue(data): the first two segments of data.split(":") are taken, the
\* others ignored.  Buffer.from(undefined, "hex") throws a TypeError when there
\* is no second segment; createDecipheriv throws when the IV is not 16 bytes.
decodeValue(secret, data) ==
    LET parts == Split(data)
    IN  IF Len(parts) < 2 THEN Throw("TypeError")
        ELSE LET iv == HexDecode(parts[1])
                 encryptedText == HexDecode(parts[2])
             IN  IF Len(iv) # IvLen THEN Throw("InvalidIV")
                 ELSE Str(Utf8Decode(CtrXor(getKey(secret), iv, encryptedText)))

(***************************************************************************)
(* The PII classifier                                                      *)
(***************************************************************************)
\* The key-name hints of detectPatternToSanitize.
W_pan == <<112, 97, 110>>                                      \* "pan"
W_mobile == <<109, 111, 98, 105, 108, 101>>                    \* "mobile"
W_phone == <<112, 104, 111, 110, 101>>                         \* "phone"
W_cvv == <<99, 118, 118>>                                      \* "cvv"
W_cvc == <<99, 118, 99>>                                       \* "cvc"
W_cvn == <<99, 118, 110>>                                      \* "cvn"
W_cid == <<99, 105, 100>>                                      \* "cid"
W_password == <<112, 97, 115, 115, 119, 111, 114, 100>>        \* "password"
W_pwd == <<112, 119, 100>>                                     \* "pwd"
W_passphrase == <<112, 97, 115, 115, 112, 104, 114, 97, 115, 101>>  \* "passphrase"
W_credit == <<99, 114, 101, 100, 105, 116>>                    \* "credit"
W_debit == <<100, 101, 98, 105, 116>>                          \* "debit"

PiiType ==
    {"pan_card", "credit_card", "cvv", "password", "email", "phone", "aadhar", "custom"}

\* value starts with n digits: /^\d{n}/
StartsWithDigits(value, n) ==
    Len(value) >= n /\ \A i \in 1..n : IsDigit(value[i])

\* /^[A-Z]{5}\d{4}[A-Z]$/
IsPanValue(value) ==
    /\ Len(value) = 10
    /\ \A i \in 1..5 : IsUpper(value[i])
    /\ \A i \in 6..9 : IsDigit(value[i])
    /\ IsUpper(value[10])

\* /\d{2,4}/ : a run of at least two digits somewhere in the value.
HasDigitRun(value) ==
    \E i \in 1..(Len(value) - 1) : IsDigit(value[i]) /\ IsDigit(value[i + 1])

\* [a-zA-Z0-9._%+-]
IsEmailLocal(c) == IsAlnum(c) \/ c \in {46, 95, 37, 43, 45}

\* /^[a-zA-Z0-9._%+-]+@[a-zA-Z0-9]+\.[a-zA-Z]{2,}$/
IsEmailValue(value) ==
    \E p \in 2..Len(value) : \E q \in (p + 2)..(Len(value) - 2) :
        /\ value[p] = 64
        /\ \A i \in 1..(p - 1) : IsEmailLocal(value[i])
        /\ \A i \in (p + 1)..(q - 1) : IsAlnum(value[i])
        /\ value[q] = 46
        /\ \A i \in (q + 1)..Len(value) : IsUpper(value[i]) \/ IsLower(value[i])

\* The sum luhnAlgorithm accumulates over a string of digits, visited from the
\* right; alt tells whether the last character (the next one visited) is doubled.
RECURSIVE LuhnSum(_, _)
LuhnSum(num, alt) ==
    IF num = <<>> THEN 0
    ELSE LET n == num[Len(num)] - 48
             d == IF alt THEN (IF 2 * n > 9 THEN 2 * n - 9 ELSE 2 * n) ELSE n
         IN  d + LuhnSum(SubSeq(num, 1, Len(num) - 1), ~alt)

\* luhnAlgorithm(num): parseInt of a character that is no digit is NaN, the sum
\* is then NaN and NaN % 10 === 0 is false.
luhnAlgorithm(num) ==
    IF \E i \in 1..Len(num) : ~IsDigit(num[i]) THEN FALSE
    ELSE LuhnSum(num, FALSE) % 10 = 0

\* detectPatternToSanitize(key, value) for a key that is a string.
detectPattern(key, value) ==
    LET lowerKey == toLowerCase(key)
    IN  IF IsPanValue(value) \/ Contains(lowerKey, W_pan) THEN "pan_card"
        ELSE IF StartsWithDigits(value, 10)
                \/ Contains(lowerKey, W_mobile) \/ Contains(lowerKey, W_phone)
             THEN "phone"
        ELSE IF StartsWithDigits(value, 12) THEN "aadhar"
        ELSE IF \/ Contains(lowerKey, W_cvv) \/ Contains(lowerKey, W_cvc)
                \/ Contains(lowerKey, W_cvn) \/ Contains(lowerKey, W_cid)
                \/ HasDigitRun(value)
             THEN "cvv"
        ELSE IF IsEmailValue(value) THEN "email"
        ELSE IF \/ Contains(lowerKey, W_password) \/ Contains(lowerKey, W_pwd)
                \/ Contains(lowerKey, W_passphrase)
             THEN "password"
        ELSE IF \/ Contains(lowerKey, W_credit) \/ Contains(lowerKey, W_debit)
                \/ (Len(value) > 13 /\ Len(value) < 19 /\ luhnAlgorithm(value))
             THEN "credit_card"
        ELSE "custom"

\* detectPatternToSanitize(path[path.length - 1], value): the key is undefined
\* when the path is empty, and key.toLowerCase() then throws a TypeError.
\* The result is [ok |-> TRUE, type |-> PiiType] or [ok |-> FALSE].
detectPatternToSanitize(path, value) ==
    IF path = <<>> THEN [ok |-> FALSE, type |-> "TypeError"]
    ELSE [ok |-> TRUE, type |-> detectPattern(path[Len(path)], value)]

(***************************************************************************)
(* Configuration and values                                                *)
(***************************************************************************)
\* An optional list of the configuration: absent (undefined) or a list.
Absent == [present |-> FALSE, items |-> <<>>]
List(xs) == [present |-> TRUE, items |-> xs]

Undef == [t |-> "undef"]
Null == [t |-> "null"]
Num(n) == [t |-> "num", n |-> n]
Bool(b) == [t |-> "bool", b |-> b]
Arr(items) == [t |-> "arr", items |-> items]
Obj(entries) == [t |-> "obj", entries |-> entries]
Entry(k, v) == [k |-> k, v |-> v]

\* The 16 bytes the k-th call of randomBytes(16) returns, for the list rnd of
\* the draws of one call of sanitizeObject.
DrawIV(rnd, k) == IF k <= Len(rnd) THEN rnd[k] ELSE [i \in 1..IvLen |-> 0]

(***************************************************************************)
(* Regular expressions: a pattern is a sequence of one-character atoms,    *)
(* [cls |-> "digit"] for \d, [cls |-> "lower"] for [a-z] and               *)
(* [cls |-> "lit", c |-> code unit] for a literal character; \d{10} is ten *)
(* "digit" atoms.                                                          *)
(***************************************************************************)
AtomMatches(atom, ch) ==
    CASE atom.cls = "digit" -> IsDigit(ch)
      [] atom.cls = "lower" -> IsLower(ch)
      [] OTHER -> ch = atom.c

\* The pattern matches val at position i.
MatchAt(pat, val, i) ==
    /\ i + Len(pat) - 1 <= Len(val)
    /\ \A j \in 1..Len(pat) : AtomMatches(pat[j], val[i + j - 1])

\* re.test(val) for a fresh global RegExp (lastIndex 0).  The pattern of no
\* atom matches the empty string at every position, the end included.
RegexTest(pat, val) == \E i \in 1..(Len(val) + 1) : MatchAt(pat, val, i)

\* maskPattern(piiType, val): every case of the switch returns encodeValue(val).
maskPattern(c, piiType, val, iv) == encodeValue(c.signingSecret, iv, val)

\* val.replace(re, (m) => this.maskPattern('custom', m)) from position i on:
\* the matches are found left to right without overlap, each is replaced by
\* the token of a call of encodeValue of its own (draws k, k+1, ...), and the
\* characters between them are copied.  After an empty match the search goes
\* on one character further, that character copied.
\* [s |-> the string, n |-> next draw].
RECURSIVE ReplaceFrom(_, _, _, _, _, _)
ReplaceFrom(c, pat, val, i, rnd, k) ==
    IF MatchAt(pat, val, i)
    THEN LET m == SubSeq(val, i, i + Len(pat) - 1)
             skipped == IF pat = <<>> /\ i <= Len(val) THEN <<val[i]>> ELSE <<>>
             next == IF pat = <<>> THEN i + 1 ELSE i + Len(pat)
             rest == IF next > Len(val) + 1 THEN [s |-> <<>>, n |-> k + 1]
                     ELSE ReplaceFrom(c, pat, val, next, rnd, k + 1)
         IN  [s |-> maskPattern(c, "custom", m, DrawIV(rnd, k)) \o skipped \o rest.s,
              n |-> rest.n]
    ELSE IF i > Len(val) THEN [s |-> <<>>, n |-> k]
    ELSE LET rest == ReplaceFrom(c, pat, val, i + 1, rnd, k)
         IN  [s |-> <<val[i]>> \o rest.s, n |-> rest.n]

\* The index of the first pattern of the list that matches val, 0 if none:
\* the for loop of walk over regexToSanitize.
FirstMatching(pats, val) ==
    IF \E i \in 1..Len(pats) : RegexTest(pats[i], val)
    THEN CHOOSE i \in 1..Len(pats) :
             RegexTest(pats[i], val) /\ \A j \in 1..(i - 1) : ~RegexTest(pats[j], val)
    ELSE 0

(***************************************************************************)
(* The tree walker                                                         *)
(***************************************************************************)
\* The key of a leaf: path[path.length - 1], undefined for the empty path.
HasKey(path) == path # <<>>
LastKey(path) == path[Len(path)]

\* this.cfg.fieldsToSkip?.includes(key)
IsSkipped(c, path) ==
    HasKey(path) /\ c.fieldsToSkip.present /\ Includes(c.fieldsToSkip.items, LastKey(path))

\* The regex step of walk: the index of the pattern that is applied, 0 when
\* regexToSanitize is absent or empty or no pattern matches.
regexIndex(c, val) ==
    IF c.regexToSanitize.present /\ Len(c.regexToSanitize.items) > 0
    THEN FirstMatching(c.regexToSanitize.items, val) ELSE 0

\* this.cfg.fieldsToSanitize.includes(key)
IsListed(c, path) ==
    HasKey(path) /\ c.fieldsToSanitize.present
    /\ Includes(c.fieldsToSanitize.items, LastKey(path))

\* if (this.cfg.fieldsToSanitize): the explicit-list branch is taken for every
\* list, the empty one too (an array is truthy).
fieldsBranchTaken(c, path) == c.fieldsToSanitize.present

\* The string branch of walk.  [v |-> the result, n |-> the next draw].
walkString(c, val, path, rnd, k) ==
    LET re == regexIndex(c, val)
        piiType == detectPatternToSanitize(path, val)
    IN  IF IsSkipped(c, path) THEN [v |-> Str(val), n |-> k]
        ELSE IF re > 0
             THEN LET r == ReplaceFrom(c, c.regexToSanitize.items[re], val, 1, rnd, k)
                  IN  [v |-> Str(r.s), n |-> r.n]
        ELSE IF fieldsBranchTaken(c, path)
             THEN IF IsListed(c, path)
                  THEN IF ~piiType.ok THEN [v |-> Throw(piiType.type), n |-> k]
                       ELSE [v |-> Str(maskPattern(c, piiType.type, val, DrawIV(rnd, k))),
                             n |-> k + 1]
                  ELSE [v |-> Str(val), n |-> k]
        ELSE IF ~piiType.ok THEN [v |-> Throw(piiType.type), n |-> k]
        ELSE IF piiType.type # "custom"
             THEN [v |-> Str(maskPattern(c, piiType.type, val, DrawIV(rnd, k))),
                   n |-> k + 1]
        ELSE [v |-> Str(val), n |-> k]

\* What walk returns for a value that is neither a non-array object nor a
\* string (a number, a boolean, null, an array): the function ends without a
\* return statement.
walkOther(val) == Undef

\* "__proto__": out[k] = v with this key sets the prototype of out (or does
\* nothing, when v is no object) and adds no member to it.
K_proto == <<95, 95, 112, 114, 111, 116, 111, 95, 95>>

\* What out[k] = v adds to the members of the fresh object out.
Assigned(k, v) == IF k = K_proto THEN <<>> ELSE <<Entry(k, v)>>

\* walk(val, path).  An object is rebuilt entry by entry, in order; an
\* exception thrown for an entry ends the walk.
RECURSIVE walk(_, _, _, _, _)
RECURSIVE walkEntries(_, _, _, _, _)
walk(c, val, path, rnd, k) ==
    IF val.t = "obj"
    THEN LET r == walkEntries(c, val.entries, path, rnd, k)
         IN  IF r.threw THEN [v |-> r.err, n |-> r.n]
             ELSE [v |-> Obj(r.entries), n |-> r.n]
    ELSE IF val.t = "str" THEN walkString(c, val.s, path, rnd, k)
    ELSE [v |-> walkOther(val), n |-> k]

walkEntries(c, entries, path, rnd, k) ==
    IF entries = <<>> THEN [threw |-> FALSE, entries |-> <<>>, err |-> Undef, n |-> k]
    ELSE LET e == Head(entries)
             r == walk(c, e.v, Append(path, e.k), rnd, k)
         IN  IF IsThrow(r.v)
             THEN [threw |-> TRUE, entries |-> <<>>, err |-> r.v, n |-> r.n]
             ELSE LET rest == walkEntries(c, Tail(entries), path, rnd, r.n)
                  IN  IF rest.threw THEN rest
                      ELSE [threw |-> FALSE,
                            entries |-> Assigned(e.k, r.v) \o rest.entries,
                            err |-> Undef, n |-> rest.n]

\* The route gate of sanitizeObject: the value is returned as it is.
OutOfScope(c, r) ==
    \/ c.disable
    \/ (c.allowlistRoutes.present /\ ~Includes(c.allowlistRoutes.items, r))
    \/ (c.denylistRoutes.present /\ Includes(c.denylistRoutes.items, r))

\* sanitizeObject(obj, route), rnd the list of the IVs randomBytes returns.
sanitizeObject(c, obj, r, rnd) ==
    IF OutOfScope(c, r) THEN obj ELSE walk(c, obj, <<>>, rnd, 1).v

\* The number of calls of randomBytes sanitizeObject(obj, route) makes.
Draws(c, obj, r) ==
    IF OutOfScope(c, r) THEN 0 ELSE walk(c, obj, <<>>, <<>>, 1).n - 1

(***************************************************************************)
(* The decode walker                                                       *)
(***************************************************************************)
\* The string branch of decodeBody.
decodeString(c, s) ==
    IF Includes(s, Colon) THEN decodeValue(c.signingSecret, s) ELSE Str(s)

\* decodeBody(object).  The first exception thrown ends the traversal.
RECURSIVE decodeBody(_, _)
RECURSIVE decodeEntries(_, _)
RECURSIVE decodeItems(_, _)
decodeBody(c, object) ==
    IF object.t = "obj"
    THEN LET r == decodeEntries(c, object.entries)
         IN  IF r.threw THEN r.err ELSE Obj(r.list)
    ELSE IF object.t = "arr"
    THEN LET r == decodeItems(c, object.items)
         IN  IF r.threw THEN r.err ELSE Arr(r.list)
    ELSE IF object.t = "str" THEN decodeString(c, object.s)
    ELSE object

decodeEntries(c, entries) ==
    IF entries = <<>> THEN [threw |-> FALSE, list |-> <<>>, err |-> Undef]
    ELSE LET e == Head(entries)
             v == decodeBody(c, e.v)
         IN  IF IsThrow(v) THEN [threw |-> TRUE, list |-> <<>>, err |-> v]
             ELSE LET rest == decodeEntries(c, Tail(entries))
                  IN  IF rest.threw THEN rest
                      ELSE [threw |-> FALSE, list |-> Assigned(e.k, v) \o rest.list,
                            err |-> Undef]

decodeItems(c, items) ==
    IF items = <<>> THEN [threw |-> FALSE, list |-> <<>>, err |-> Undef]
    ELSE LET v == decodeBody(c, Head(items))
         IN  IF IsThrow(v) THEN [threw |-> TRUE, list |-> <<>>, err |-> v]
             ELSE LET rest == decodeItems(c, Tail(items))
                  IN  IF rest.threw THEN rest
                      ELSE [threw |-> FALSE, list |-> <<v>> \o rest.list, err |-> Undef]

(***************************************************************************)
(* Inputs                                                                  *)
(***************************************************************************)
\* The number of distinct IVs randomBytes may return in the model.
NumIVs == 2
\* The longest generated string of the codec's inputs.
MaxStrLen == 2
\* The largest number of entries of a generated object.
MaxEntries == 2

\* The IVs randomBytes(16) may return.
IVs == { [i \in 1..IvLen |-> (j * 37 + i * 53) % 256] : j \in 1..NumIVs }

\* "thisisseceretkeyforme" and "other"
Secret1 ==
    <<116, 104, 105, 115, 105, 115, 115, 101, 99, 101, 114, 101, 116, 107,
      101, 121, 102, 111, 114, 109, 101>>
Secret2 == <<111, 116, 104, 101, 114>>

K_username == <<117, 115, 101, 114, 110, 97, 109, 101>>        \* "username"
K_password == <<112, 97, 115, 115, 119, 111, 114, 100>>        \* "password"
K_email == <<101, 109, 97, 105, 108>>                          \* "email"
K_phone == <<112, 104, 111, 110, 101>>                         \* "phone"
K_card == <<99, 97, 114, 100>>                                 \* "card"
K_id == <<105, 100>>                                           \* "id"
K_PAN == <<80, 65, 78>>                                        \* "PAN"
K_creditCard == <<99, 114, 101, 100, 105, 116, 67, 97, 114, 100>>  \* "creditCard"
\* "EMA\u0130L" (a dotted capital I, lower-cased to "i" and U+0307) and
\* "\u0100ADHAR" (lower-cased to U+0101 and "adhar")
K_EMAIL_dotted == <<69, 77, 65, 304, 76>>
K_AADHAR_macron == <<256, 65, 68, 72, 65, 82>>

V_JohnDoe == <<74, 111, 104, 110, 68, 111, 101>>               \* "JohnDoe"
\* "mysecretpass"
V_mysecretpass == <<109, 121, 115, 101, 99, 114, 101, 116, 112, 97, 115, 115>>
\* "john@example.com"
V_johnEmail ==
    <<106, 111, 104, 110, 64, 101, 120, 97, 109, 112, 108, 101, 46, 99, 111, 109>>
V_phone == <<57, 56, 55, 54, 53, 52, 51, 50, 49, 48>>           \* "9876543210"
\* "9876543210 call me"
V_phoneCallMe ==
    <<57, 56, 55, 54, 53, 52, 51, 50, 49, 48, 32, 99, 97, 108, 108, 32, 109, 101>>
\* "4111111111111111"
V_visa == <<52, 49, 49, 49, 49, 49, 49, 49, 49, 49, 49, 49, 49, 49, 49, 49>>
\* "4111111111111112": sixteen digits that fail the Luhn checksum
V_notLuhn == <<52, 49, 49, 49, 49, 49, 49, 49, 49, 49, 49, 49, 49, 49, 49, 50>>
\* "4111 1111 1111 1111": the card number as it is printed, 19 characters
V_visaSpaced ==
    <<52, 49, 49, 49, 32, 49, 49, 49, 49, 32, 49, 49, 49, 49, 32, 49, 49, 49, 49>>
V_pan == <<65, 65, 65, 65, 65, 49, 50, 51, 52, 65>>            \* "AAAAA1234A"
V_aadhar == <<49, 50, 51, 52, 53, 54, 55, 56, 57, 48, 49, 50>>  \* "123456789012"
V_colon == <<97, 58, 98>>                                      \* "a:b"
V_twoRuns == <<49, 50, 32, 97, 98, 32, 51, 52>>                \* "12 ab 34"
V_x42 == <<120, 52, 50>>                                       \* "x42"
V_hello == <<104, 101, 108, 108, 111>>                         \* "hello"
V_lone == <<55357>>                          \* "\uD83D", an unpaired surrogate

\* \d{10}, \d{2} and the literal "me"
P_digits10 == [i \in 1..10 |-> [cls |-> "digit", c |-> 0]]
P_digits2 == [i \in 1..2 |-> [cls |-> "digit", c |-> 0]]
P_me == <<[cls |-> "lit", c |-> 109], [cls |-> "lit", c |-> 101]>>

Routes == {"/signup", "/login"}

BaseCfg ==
    [signingSecret |-> Secret1, disable |-> FALSE,
     allowlistRoutes |-> Absent, denylistRoutes |-> Absent,
     regexToSanitize |-> Absent, fieldsToSanitize |-> Absent, fieldsToSkip |-> Absent]

\* The configurations of the leaf policy: every combination of the three lists.
FieldConfigs ==
    { [BaseCfg EXCEPT !.regexToSanitize = re, !.fieldsToSanitize = fs, !.fieldsToSkip = sk] :
        re \in {Absent, List(<<>>), List(<<P_digits10>>), List(<<P_me, P_digits2>>)},
        fs \in {Absent, List(<<>>), List(<<K_password, K_email>>), List(<<K_username>>)},
        sk \in {Absent, List(<<K_password>>)} }

\* The configurations of the route gate.
GateConfigs ==
    { [BaseCfg EXCEPT !.disable = d, !.allowlistRoutes = al, !.denylistRoutes = dl] :
        d \in BOOLEAN,
        al \in {Absent, List(<<>>), List(<<"/signup">>)},
        dl \in {Absent, List(<<"/signup">>)} }

\* The string leaves of the objects with several entries, and all of them.
FewStrings == {V_JohnDoe, V_johnEmail}
AllStrings ==
    FewStrings \cup {V_phoneCallMe, V_colon, V_twoRuns, V_mysecretpass, V_phone, V_lone, <<>>}

FewLeaves == {Str(s) : s \in FewStrings} \cup {Num(42)}
AllLeaves == {Str(s) : s \in AllStrings} \cup {Num(42), Bool(TRUE), Null}

Keys == {K_username, K_password, K_phone}

\* The entry lists of n entries with distinct keys.
RECURSIVE EntryLists(_, _)
EntryLists(n, leaves) ==
    IF n = 0 THEN {<<>>}
    ELSE { Append(es, Entry(k, v)) :
             es \in { x \in EntryLists(n - 1, leaves) : TRUE }, k \in Keys, v \in leaves }

DistinctKeys(es) == \A i, j \in 1..Len(es) : i # j => es[i].k # es[j].k

Objects1 == { Obj(<<Entry(k, v)>>) : k \in Keys, v \in AllLeaves }
ObjectsN ==
    UNION { { Obj(es) : es \in { x \in EntryLists(n, FewLeaves) : DistinctKeys(x) } } :
              n \in 0..MaxEntries }
Arrays == { Arr(<<>>), Arr(<<Str(V_johnEmail)>>), Arr(<<Str(V_JohnDoe), Num(42)>>) }
\* The object of the end-to-end scenario.
Scenario ==
    Obj(<<Entry(K_username, Str(V_JohnDoe)), Entry(K_password, Str(V_mysecretpass)),
          Entry(K_email, Str(V_johnEmail)), Entry(K_phone, Str(V_phone))>>)
Nested ==
    { Obj(<<Entry(k, v)>>) :
        k \in Keys,
        v \in Arrays \cup { Obj(<<Entry(k2, l)>>) : k2 \in {K_password, K_phone},
                                                    l \in FewLeaves } }
    \cup { Obj(<<Entry(K_username, Num(42)), Entry(K_password, Str(V_mysecretpass)),
                 Entry(K_phone, Arr(<<Str(V_phone)>>))>>) }

\* Objects with a member "__proto__", as JSON.parse makes them.
ProtoObjects ==
    { Obj(<<Entry(K_proto, Str(V_johnEmail)), Entry(K_email, Str(V_johnEmail))>>),
      Obj(<<Entry(K_proto, Obj(<<Entry(K_password, Str(V_JohnDoe))>>)),
            Entry(K_username, Num(42))>>) }

\* The JSON-like values handed to sanitizeObject.
Values ==
    AllLeaves \cup Arrays \cup Objects1 \cup ObjectsN \cup Nested \cup ProtoObjects
        \cup {Scenario}

None == [t |-> "none"]

(***************************************************************************)
(* The walker's specification: a caller sanitizes a value, then decodes    *)
(* what it got.                                                            *)
(***************************************************************************)
Init ==
    /\ pc = "start"
    /\ \/ cfg \in FieldConfigs /\ route = "/signup" /\ input \in Values
       \/ cfg \in GateConfigs /\ route \in Routes /\ input \in AllLeaves \cup {Scenario}
    /\ out = None
    /\ dec = None

\* req.body = sanitizer.sanitizeObject(body, route)
SanitizeObject ==
    /\ pc = "start"
    /\ \E rnd \in [1..Draws(cfg, input, route) -> IVs] :
           out' = sanitizeObject(cfg, input, route, rnd)
    /\ pc' = IF IsThrow(out') THEN "threw" ELSE "sanitized"
    /\ UNCHANGED <<cfg, route, input, dec>>

\* sanitizer.decodeBody(req.body) on the sanitized value
DecodeBody ==
    /\ pc = "sanitized"
    /\ dec' = decodeBody(cfg, out)
    /\ pc' = IF IsThrow(dec') THEN "decodeThrew" ELSE "decoded"
    /\ UNCHANGED <<cfg, route, input, out>>

Next == SanitizeObject \/ DecodeBody

Spec == Init /\ [][Next]_vars

(***************************************************************************)
(* Paths: the nodes of a value, reached through the members of objects by  *)
(* their keys and through the elements of arrays by their indices          *)
(***************************************************************************)
\* The path segment of the i-th element of an array: its index, from 0, as a
\* property name ("0", "1", ...).
IndexKey(i) == <<47 + i>>

RECURSIVE NodePaths(_)
NodePaths(v) ==
    IF v.t = "obj"
    THEN {<<>>} \cup UNION { { <<v.entries[i].k>> \o p : p \in NodePaths(v.entries[i].v) } :
                               i \in 1..Len(v.entries) }
    ELSE IF v.t = "arr"
    THEN {<<>>} \cup UNION { { <<IndexKey(i)>> \o p : p \in NodePaths(v.items[i]) } :
                               i \in 1..Len(v.items) }
    ELSE {<<>>}

\* The value at path p of v, None if v has no value there.
RECURSIVE At(_, _)
At(v, p) ==
    IF p = <<>> THEN v
    ELSE IF v.t = "obj" /\ \E i \in 1..Len(v.entries) : v.entries[i].k = Head(p)
    THEN At(v.entries[CHOOSE i \in 1..Len(v.entries) : v.entries[i].k = Head(p)].v, Tail(p))
    ELSE IF v.t = "arr" /\ \E i \in 1..Len(v.items) : IndexKey(i) = Head(p)
    THEN At(v.items[CHOOSE i \in 1..Len(v.items) : IndexKey(i) = Head(p)], Tail(p))
    ELSE None

\* The paths of the string leaves of a value.
StringPaths(v) == { p \in NodePaths(v) : At(v, p).t = "str" }

\* sanitizeObject was called for a route in scope, and has returned or thrown.
Called == pc # "start" /\ ~OutOfScope(cfg, route)

\* sanitizeObject has walked the input and returned.
Walked == pc \in {"sanitized", "decoded", "decodeThrew"} /\ ~OutOfScope(cfg, route)

(***************************************************************************)
(* C1.  sanitizeObject returns a value of the structure of its input:      *)
(* objects are rebuilt with the same keys in the same order, arrays with   *)
(* the same length, element by element, and numbers, booleans and null are *)
(* returned unchanged; only string leaves may differ.                      *)
(***************************************************************************)
RECURSIVE SameStructure(_, _)
SameStructure(a, b) ==
    CASE a.t = "obj" ->
           /\ b.t = "obj"
           /\ Len(b.entries) = Len(a.entries)
           /\ \A i \in 1..Len(a.entries) :
                  /\ b.entries[i].k = a.entries[i].k
                  /\ SameStructure(a.entries[i].v, b.entries[i].v)
      [] a.t = "arr" ->
           /\ b.t = "arr"
           /\ Len(b.items) = Len(a.items)
           /\ \A i \in 1..Len(a.items) : SameStructure(a.items[i], b.items[i])
      [] a.t = "str" -> b.t = "str"
      [] OTHER -> b = a

C1_StructurePreserved == Walked => SameStructure(input, out)

(***************************************************************************)
(* C7.  sanitizeObject raises no error, whatever JSON-like value it is     *)
(* handed (a bare string at the root included) under a configuration whose *)
(* patterns compile: no call of sanitizeObject ends in an exception.       *)
(***************************************************************************)
C7_SanitizeNeverFails == pc # "threw"

(***************************************************************************)
(* The rules of the leaf policy, as the claims state them                  *)
(***************************************************************************)
\* The field name of the leaf at path p is in the list l of the configuration.
NameIn(l, p) == p # <<>> /\ l.present /\ \E i \in 1..Len(l.items) : l.items[i] = p[Len(p)]

\* Some pattern of regexToSanitize matches the value.
SomePatternMatches(val) ==
    /\ cfg.regexToSanitize.present
    /\ \E i \in 1..Len(cfg.regexToSanitize.items) : RegexTest(cfg.regexToSanitize.items[i], val)

\* Neither a skip rule nor a pattern applies to the string leaf at path p.
PlainLeaf(p) ==
    /\ p \in StringPaths(input)
    /\ ~NameIn(cfg.fieldsToSkip, p)
    /\ ~SomePatternMatches(At(input, p).s)

\* s has the form of a token: 32 hex digits, a colon, hex digits in pairs.
IsToken(s) ==
    /\ Len(s) >= 2 * IvLen + 1
    /\ s[2 * IvLen + 1] = Colon
    /\ \A i \in 1..Len(s) : i # 2 * IvLen + 1 => IsHexDigit(s[i])
    /\ (Len(s) - (2 * IvLen + 1)) % 2 = 0

\* v is a token of the string val: one of the values encodeValue(val) may return.
IsTokenOf(v, val) ==
    /\ v.t = "str" /\ IsToken(v.s) /\ v.s # val
    /\ \E iv \in IVs : v.s = encodeValue(cfg.signingSecret, iv, val)

(***************************************************************************)
(* C4.  Skip precedence: a string leaf whose field name is in fieldsToSkip *)
(* is returned unchanged, whether or not a pattern of regexToSanitize      *)
(* matches it, its name is in fieldsToSanitize or the classifier finds a   *)
(* PII type for it.                                                        *)
(***************************************************************************)
C4_SkipPrecedence ==
    Called => \A p \in StringPaths(input) :
                  NameIn(cfg.fieldsToSkip, p) => At(out, p) = At(input, p)

(***************************************************************************)
(* C5.  Explicit-field exclusivity: with a non-empty fieldsToSanitize, a   *)
(* string leaf to which no skip rule and no pattern applies is replaced by *)
(* a token if and only if its field name is in the list, whatever the      *)
(* classifier returns for it.                                              *)
(***************************************************************************)
C5_ExplicitFieldExclusivity ==
    (Called /\ cfg.fieldsToSanitize.present /\ cfg.fieldsToSanitize.items # <<>>) =>
        \A p \in StringPaths(input) :
            PlainLeaf(p) =>
                /\ NameIn(cfg.fieldsToSanitize, p) => IsTokenOf(At(out, p), At(input, p).s)
                /\ ~NameIn(cfg.fieldsToSanitize, p) => At(out, p) = At(input, p)

(***************************************************************************)
(* C6.  When fieldsToSanitize is absent or an empty list, a string leaf to *)
(* which no skip rule and no pattern applies is handled by auto-detect: it *)
(* is masked if and only if the classifier returns a type other than       *)
(* custom for it.                                                          *)
(***************************************************************************)
\* The classifier returns a type for the leaf at path p, and the leaf is
\* replaced by a token if that type is not custom and returned unchanged if
\* it is.
AutoDetected(p) ==
    LET piiType == detectPatternToSanitize(p, At(input, p).s)
    IN  /\ piiType.ok
        /\ IF piiType.type # "custom"
           THEN IsTokenOf(At(out, p), At(input, p).s)
           ELSE At(out, p) = At(input, p)

C6_AutoDetectWhenAbsentOrEmpty ==
    (Called /\ (~cfg.fieldsToSanitize.present \/ cfg.fieldsToSanitize.items = <<>>)) =>
        \A p \in StringPaths(input) : PlainLeaf(p) => AutoDetected(p)

(***************************************************************************)
(* C10.  Regex mode: for a string leaf that fieldsToSkip does not exempt   *)
(* and that some pattern matches, the result is the value with every match *)
(* of the first matching pattern (in configuration order) replaced by a    *)
(* token of its own, the text outside the matches kept in place; the later *)
(* patterns are not applied; fieldsToSanitize plays no part.               *)
(***************************************************************************)
\* r from position j on is val from position i on with every match of pat,
\* found left to right, replaced by a token that decodes to the match.
RECURSIVE MaskedFrom(_, _, _, _, _)
MaskedFrom(pat, val, i, r, j) ==
    IF MatchAt(pat, val, i) /\ pat # <<>>
    THEN LET m == SubSeq(val, i, i + Len(pat) - 1)
             n == 2 * IvLen + 1 + 2 * Len(Utf8Encode(m))
             tok == SubSeq(r, j, j + n - 1)
         IN  /\ j + n - 1 <= Len(r)
             /\ IsToken(tok)
             /\ decodeValue(cfg.signingSecret, tok) = Str(m)
             /\ MaskedFrom(pat, val, i + Len(pat), r, j + n)
    ELSE IF pat = <<>>
    THEN \* an empty match before every character and at the end
         LET n == 2 * IvLen + 1
             tok == SubSeq(r, j, j + n - 1)
         IN  /\ j + n - 1 <= Len(r)
             /\ IsToken(tok)
             /\ IF i > Len(val) THEN j + n = Len(r) + 1
                ELSE /\ j + n <= Len(r) /\ r[j + n] = val[i]
                     /\ MaskedFrom(pat, val, i + 1, r, j + n + 1)
    ELSE IF i > Len(val) THEN j = Len(r) + 1
    ELSE j <= Len(r) /\ r[j] = val[i] /\ MaskedFrom(pat, val, i + 1, r, j + 1)

\* The first pattern, in configuration order, that matches val.
FirstPattern(val) ==
    LET ps == cfg.regexToSanitize.items
    IN  ps[CHOOSE i \in 1..Len(ps) :
                 RegexTest(ps[i], val) /\ \A j \in 1..(i - 1) : ~RegexTest(ps[j], val)]

C10_RegexMode ==
    Called =>
        \A p \in StringPaths(input) :
            (~NameIn(cfg.fieldsToSkip, p) /\ SomePatternMatches(At(input, p).s)) =>
                /\ At(out, p).t = "str"
                /\ MaskedFrom(FirstPattern(At(input, p).s), At(input, p).s, 1, At(out, p).s, 1)

(***************************************************************************)
(* C2.  With fieldsToSanitize configured and regexToSanitize absent, for   *)
(* every object whose leaves are strings, decodeBody of the sanitized      *)
(* object is the object itself.  (Stated for well-formed strings, for      *)
(* which the codec is reversible.)                                         *)
(***************************************************************************)
ObjectOfStrings(v) ==
    /\ v.t = "obj"
    /\ \A p \in NodePaths(v) :
           /\ At(v, p).t \in {"obj", "str"}
           /\ At(v, p).t = "str" => WellFormed(At(v, p).s)

C2_DecodeRestoresObject ==
    ( /\ pc \in {"decoded", "decodeThrew"} /\ ~OutOfScope(cfg, route)
      /\ cfg.fieldsToSanitize.present /\ ~cfg.regexToSanitize.present
      /\ ObjectOfStrings(input) )
    => (pc = "decoded" /\ dec = input)

(***************************************************************************)
(* The codec's specification: a string is encoded and the token decoded,   *)
(* or a string a caller holds is handed to decodeBody as it is.            *)
(***************************************************************************)
\* 'a', ':', U+00E9, U+20AC and the two halves of the pair of U+1F600
CodecAlphabet == {97, 58, 233, 8364, 55357, 56832}

RECURSIVE StringsUpTo(_)
StringsUpTo(n) ==
    IF n = 0 THEN {<<>>}
    ELSE StringsUpTo(n - 1)
           \cup { Append(s, ch) : s \in { x \in StringsUpTo(n - 1) : Len(x) = n - 1 },
                                  ch \in CodecAlphabet }

CodecStrings == StringsUpTo(MaxStrLen)

\* A token of "ab" and the strings a caller may make of it.
TokenIv == [i \in 1..IvLen |-> (37 + i * 53) % 256]
TokenIvHex == HexEncode(TokenIv)
TokenCipherHex == HexEncode(CtrXor(getKey(Secret1), TokenIv, <<97, 98>>))
Token == TokenIvHex \o <<Colon>> \o TokenCipherHex
TokenLike ==
    { Token,
      Token \o <<Colon, 55, 97>>,                         \* a third segment, ":7a"
      Token \o <<Colon, 122, 122>>,                       \* a third segment, ":zz"
      Token \o <<122, 122>>,                              \* "zz" after the ciphertext
      Token \o <<97>>,                                    \* an odd hex digit more
      <<122, 122>> \o Token,                              \* "zz" before the IV
      TokenIvHex \o <<122, 122, Colon>> \o TokenCipherHex,  \* "zz" after the IV
      TokenIvHex \o <<97, Colon>> \o TokenCipherHex,      \* a 33rd hex digit
      TokenIvHex \o <<97, 98, Colon>> \o TokenCipherHex,  \* 17 bytes of IV
      SubSeq(TokenIvHex, 1, 2 * IvLen - 2) \o <<Colon>> \o TokenCipherHex,  \* 15 bytes
      TokenIvHex \o <<Colon>>,                            \* no ciphertext
      \* the IV in code units above U+00FF whose low byte is a hex digit
      [i \in 1..Len(TokenIvHex) |-> TokenIvHex[i] + 256] \o <<Colon>> \o TokenCipherHex,
      \* the token of U+20AC without the last byte of its ciphertext
      TokenIvHex \o <<Colon>>
          \o HexEncode(SubSeq(CtrXor(getKey(Secret1), TokenIv, Utf8Encode(<<8364>>)), 1, 2)),
      V_colon, V_johnEmail }

InitCodec ==
    /\ pc = "start"
    /\ cfg \in { [BaseCfg EXCEPT !.signingSecret = s] : s \in {Secret1, Secret2} }
    /\ route = "/signup"
    /\ input \in { Str(s) : s \in CodecStrings \cup TokenLike }
    /\ out = None
    /\ dec = None

\* maskPattern('custom', s), that is encodeValue(s)
EncodeValue ==
    /\ pc = "start"
    /\ \E iv \in IVs : out' = Str(maskPattern(cfg, "custom", input.s, iv))
    /\ pc' = "encoded"
    /\ UNCHANGED <<cfg, route, input, dec>>

\* decodeValue(token) of the token just made
DecodeValue ==
    /\ pc = "encoded"
    /\ dec' = decodeValue(cfg.signingSecret, out.s)
    /\ pc' = "valueDecoded"
    /\ UNCHANGED <<cfg, route, input, out>>

\* decodeBody(s) of a string leaf the caller holds
DecodeLeaf ==
    /\ pc = "start"
    /\ dec' = decodeBody(cfg, input)
    /\ pc' = "leafDecoded"
    /\ UNCHANGED <<cfg, route, input, out>>

NextCodec == EncodeValue \/ DecodeValue \/ DecodeLeaf

SpecCodec == InitCodec /\ [][NextCodec]_vars

(***************************************************************************)
(* C3.  As claimed: decodeValue(encodeValue(s)) = s for every string s.    *)
(***************************************************************************)
C3_RoundTripEveryString == pc = "valueDecoded" => dec = input

(***************************************************************************)
(* C3, amended.  For every well-formed string s (no unpaired surrogate)    *)
(* and whatever IV encodeValue drew, decodeValue(encodeValue(s)) = s; the  *)
(* token is the 32 hex digits of the IV, a colon and the hex digits of the *)
(* ciphertext, two for every byte of the UTF-8 form of s.                  *)
(***************************************************************************)
C3_RoundTrip ==
    pc \in {"encoded", "valueDecoded"} =>
        /\ IsToken(out.s)
        /\ \E iv \in IVs : SubSeq(out.s, 1, 2 * IvLen) = HexEncode(iv)
        /\ Len(out.s) = 2 * IvLen + 1 + 2 * Len(Utf8Encode(input.s))
        /\ (pc = "valueDecoded" /\ WellFormed(input.s)) => dec = input

\* The pair of surrogates of U+1F600, four bytes of UTF-8, comes back.
C3_Witness ==
    /\ pc = "valueDecoded"
    /\ input = Str(<<55357, 56832>>)
    /\ cfg.signingSecret = Secret2
    /\ dec = input

(***************************************************************************)
(* C8.  As claimed: decodeBody on a leaf holding a colon-containing string *)
(* that is not exactly two hex segments separated by one colon ends in an  *)
(* error.                                                                  *)
(***************************************************************************)
TwoHexSegments(s) ==
    \E i \in 1..Len(s) :
        /\ s[i] = Colon
        /\ \A j \in 1..Len(s) : j # i => IsHexDigit(s[j])

C8_MalformedTokenRejected ==
    (pc = "leafDecoded" /\ Includes(input.s, Colon) /\ ~TwoHexSegments(input.s))
        => IsThrow(dec)

(***************************************************************************)
(* C8, amended.  decodeBody on a leaf holding a colon-containing string    *)
(* ends in an error if and only if the text before the first colon does    *)
(* not begin with exactly 16 pairs of hex digits (32 hex digits not        *)
(* followed by a 17th pair); otherwise it returns a string, whatever       *)
(* follows: a third segment, characters that are no hex digits.            *)
(***************************************************************************)
BeforeColon(s) ==
    SubSeq(s, 1, (CHOOSE i \in 1..Len(s) : s[i] = Colon /\ \A j \in 1..(i - 1) : s[j] # Colon) - 1)

SixteenPairs(seg) ==
    /\ Len(seg) >= 2 * IvLen
    /\ \A i \in 1..(2 * IvLen) : HexVal(seg[i]) >= 0
    /\ ~(Len(seg) >= 2 * IvLen + 2 /\ HexVal(seg[2 * IvLen + 1]) >= 0
                                     /\ HexVal(seg[2 * IvLen + 2]) >= 0)

C8_RejectedIffBadIv ==
    (pc = "leafDecoded" /\ Includes(input.s, Colon)) =>
        /\ IsThrow(dec) <=> ~SixteenPairs(BeforeColon(input.s))
        /\ ~IsThrow(dec) => dec.t = "str"

\* A token with a third segment is decoded to the text of the token, and a
\* string whose IV part is short is rejected.
C8_Witness ==
    /\ pc = "leafDecoded"
    /\ input = Str(Token \o <<Colon, 122, 122>>)
    /\ cfg.signingSecret = Secret1
    /\ dec = Str(<<97, 98>>)

(***************************************************************************)
(* The classifier's specification: detectPatternToSanitize is called with  *)
(* a key (or none) and a value.                                            *)
(***************************************************************************)
\* "30569309025904" and "411111111111111118": 14 and 18 digits, Luhn-valid
V_luhn14 == <<51, 48, 53, 54, 57, 51, 48, 57, 48, 50, 53, 57, 48, 52>>
V_luhn18 ==
    <<52, 49, 49, 49, 49, 49, 49, 49, 49, 49, 49, 49, 49, 49, 49, 49, 49, 56>>

ClassifyKeys ==
    {K_card, K_id, K_PAN, K_creditCard, K_username, K_password, K_email, K_phone,
     K_EMAIL_dotted, K_AADHAR_macron}
ClassifyValues ==
    {V_visa, V_notLuhn, V_visaSpaced, V_luhn14, V_luhn18, V_pan, V_aadhar, V_phone,
     V_johnEmail, V_JohnDoe, V_mysecretpass, V_hello, V_x42, V_colon, V_twoRuns, <<>>}

InitClassify ==
    /\ pc = "start"
    /\ cfg = BaseCfg
    /\ route = "/signup"
    /\ input \in { [t |-> "leaf", path |-> pth, s |-> v] :
                     pth \in {<<>>} \cup { <<k>> : k \in ClassifyKeys },
                     v \in ClassifyValues }
    /\ out = None
    /\ dec = None

\* detectPatternToSanitize(key, value)
Classify ==
    /\ pc = "start"
    /\ LET r == detectPatternToSanitize(input.path, input.s)
       IN  /\ out' = IF r.ok THEN [t |-> "type", type |-> r.type] ELSE Throw(r.type)
           /\ pc' = IF r.ok THEN "classified" ELSE "threw"
    /\ UNCHANGED <<cfg, route, input, dec>>

NextClassify == Classify

SpecClassify == InitClassify /\ [][NextClassify]_vars

(***************************************************************************)
(* C9.  A value of 14 to 18 digits that passes the Luhn checksum, under a  *)
(* field name with none of the classifier's keywords, is classified as     *)
(* credit_card.                                                            *)
(***************************************************************************)
Keywords ==
    {W_pan, W_mobile, W_phone, W_cvv, W_cvc, W_cvn, W_cid, W_password, W_pwd,
     W_passphrase, W_credit, W_debit}

LuhnNumber(v) ==
    /\ Len(v) >= 14 /\ Len(v) <= 18
    /\ \A i \in 1..Len(v) : IsDigit(v[i])
    /\ luhnAlgorithm(v)

C9_LuhnIsCreditCard ==
    ( /\ pc = "classified"
      /\ \A w \in Keywords : ~Contains(toLowerCase(input.path[1]), w)
      /\ LuhnNumber(input.s) )
    => out.type = "credit_card"

(***************************************************************************)
(* C11.  Regex-masked strings are reversible: for every string leaf that   *)
(* regex mode masked in part (one or more tokens embedded in text that was *)
(* left as it is, before or after the tokens), decodeBody with the same    *)
(* signingSecret returns the original string in full, the text outside the *)
(* matches included.                                                       *)
(***************************************************************************)
\* The number of characters of val, from position i on, that lie outside the
\* matches of pat found left to right.
RECURSIVE OutsideMatches(_, _, _)
OutsideMatches(pat, val, i) ==
    IF i > Len(val) THEN 0
    ELSE IF MatchAt(pat, val, i) /\ pat # <<>> THEN OutsideMatches(pat, val, i + Len(pat))
    ELSE 1 + OutsideMatches(pat, val, i + 1)

\* Regex mode masked the string leaf at path p in part: the result of
\* sanitizeObject holds a string for it, the tokens of the matches and the
\* text around them.
PartlyMasked(p) ==
    /\ p \in StringPaths(input)
    /\ At(out, p).t = "str"
    /\ ~NameIn(cfg.fieldsToSkip, p)
    /\ SomePatternMatches(At(input, p).s)
    /\ WellFormed(At(input, p).s)
    /\ OutsideMatches(FirstPattern(At(input, p).s), At(input, p).s, 1) > 0

C11_RegexMaskReversible ==
    (pc \in {"decoded", "decodeThrew"} /\ ~OutOfScope(cfg, route)) =>
        \A p \in NodePaths(input) :
            PartlyMasked(p) => (pc = "decoded" /\ At(dec, p) = At(input, p))

====
